---- MODULE Spec2Model ----
(***************************************************************************)
(* A model of mangadex/url_models.py: the URLRequest class, its lazily     *)
(* created class-level requests.Session and the request_url pipeline       *)
(* (parameter normalisation, dispatch by method, status check, body        *)
(* parsing and the embedded-error check).                                  *)
(*                                                                         *)
(* Python values are tagged records.  A text is a sequence of chunks (a    *)
(* chunk is a character, or one JSON lexeme of a response body); a byte    *)
(* string is a sequence of byte chunks, where an ASCII chunk stands for    *)
(* its own bytes and "0xC3", "0xA9", "0xFF" are single non-ASCII bytes.    *)
(***************************************************************************)
EXTENDS Integers, Sequences, FiniteSets, TLC

\* ------------------------------------------------------------------ bounds
NumThreads == 2      \* threads that call request_url
MaxParams == 2       \* entries of a parameter mapping
MaxElems == 2        \* elements of a JSON array in a response body

Threads == 1..NumThreads

\* ------------------------------------------------------------ Python values
None == [t |-> "None"]
Str(s) == [t |-> "str", s |-> s]
PyInt(n) == [t |-> "int", n |-> n]
Bytes(b) == [t |-> "bytes", b |-> b]
List(a) == [t |-> "list", a |-> a]
\* a dict that keeps its iteration order: a sequence of <<key, value>> pairs
Dict(m) == [t |-> "dict", m |-> m]
\* an argument that is not passed to the transport at all
Absent == [t |-> "absent"]

Range(s) == {s[i] : i \in 1..Len(s)}

RECURSIVE Flatten(_)
\* the concatenation of a sequence of sequences
Flatten(ss) == IF ss = <<>> THEN <<>> ELSE Head(ss) \o Flatten(Tail(ss))

\* ------------------------------------------------------------------ codecs
NonAscii == {"0xC3", "0xA9", "0xFF"}

RECURSIVE decode(_)
\* bytes.decode("utf-8"): ASCII bytes are themselves, 0xC3 0xA9 is one
\* character, any other non-ASCII byte raises UnicodeDecodeError
decode(b) ==
    IF b = <<>> THEN [ok |-> TRUE, text |-> <<>>]
    ELSE IF Head(b) = "0xC3"
         THEN IF Len(b) >= 2 /\ b[2] = "0xA9"
              THEN LET r == decode(Tail(Tail(b)))
                   IN  IF r.ok THEN [ok |-> TRUE, text |-> <<"é">> \o r.text]
                       ELSE [ok |-> FALSE]
              ELSE [ok |-> FALSE]
         ELSE IF Head(b) \in NonAscii THEN [ok |-> FALSE]
         ELSE LET r == decode(Tail(b))
              IN  IF r.ok THEN [ok |-> TRUE, text |-> <<Head(b)>> \o r.text]
                  ELSE [ok |-> FALSE]

\* str(n) for the integers the model uses
IntDigits(n) ==
    CASE n = 1 -> <<"1">>
      [] n = 2 -> <<"2">>
      [] n = 3 -> <<"3">>
      [] n = 10 -> <<"1", "0">>
      [] OTHER -> <<"?">>

\* str(v), as urlencode applies it to a value that is not a byte string
str(v) ==
    CASE v.t = "str" -> v.s
      [] v.t = "int" -> IntDigits(v.n)
      [] v.t = "None" -> <<"N", "o", "n", "e">>
      [] OTHER -> <<"?">>

\* urllib.parse.quote_plus on one character
QuoteChar(c) ==
    CASE c = " " -> <<"+">>
      [] c = "&" -> <<"%26">>
      [] c = "=" -> <<"%3D">>
      [] c = "+" -> <<"%2B">>
      [] c = "é" -> <<"%C3", "%A9">>
      [] OTHER -> <<c>>

quote_plus(s) == Flatten([i \in 1..Len(s) |-> QuoteChar(s[i])])

RECURSIVE urlencode(_)
\* urllib.parse.urlencode on a sequence of pairs (doseq is off)
urlencode(pairs) ==
    IF pairs = <<>> THEN <<>>
    ELSE LET p == Head(pairs)
             one == quote_plus(p[1]) \o <<"=">> \o quote_plus(str(p[2]))
         IN  IF Len(pairs) = 1 THEN one
             ELSE one \o <<"&">> \o urlencode(Tail(pairs))

\* -------------------------------------------------------------- dict access
\* key in d
HasKey(d, k) == \E i \in 1..Len(d.m) : d.m[i][1] = k

\* d.get(k, default)
Get(d, k, default) ==
    IF HasKey(d, k)
    THEN d.m[CHOOSE i \in 1..Len(d.m) : d.m[i][1] = k][2]
    ELSE default

\* d[k] = v on the pair sequence m: an existing key keeps its place
DictSet(m, k, v) ==
    IF \E i \in 1..Len(m) : m[i][1] = k
    THEN [i \in 1..Len(m) |-> IF m[i][1] = k THEN <<k, v>> ELSE m[i]]
    ELSE Append(m, <<k, v>>)

\* ------------------------------------------------------------- json.loads
JsonWords == {"result", "error", "errors", "ok", "bad id", "data"}
JsonNumbers == {1, 2, 3}

Quoted(w) == "\"" \o w \o "\""
StrLexemes == {Quoted(w) : w \in JsonWords}
Unquoted(x) == CHOOSE w \in JsonWords : Quoted(w) = x
NumLexemes == {IntDigits(n)[1] : n \in JsonNumbers}
NumberOf(x) == CHOOSE n \in JsonNumbers : IntDigits(n)[1] = x

NoParse == [ok |-> FALSE]

RECURSIVE ParseValue(_, _), ParseMembers(_, _, _), ParseElements(_, _, _)
\* one JSON value starting at lexeme i: [ok, val, pos] or NoParse
ParseValue(toks, i) ==
    IF i > Len(toks) THEN NoParse
    ELSE LET x == toks[i]
         IN  CASE x = "{" ->
                    IF i + 1 <= Len(toks) /\ toks[i + 1] = "}"
                    THEN [ok |-> TRUE, val |-> Dict(<<>>), pos |-> i + 2]
                    ELSE ParseMembers(toks, i + 1, <<>>)
               [] x = "[" ->
                    IF i + 1 <= Len(toks) /\ toks[i + 1] = "]"
                    THEN [ok |-> TRUE, val |-> List(<<>>), pos |-> i + 2]
                    ELSE ParseElements(toks, i + 1, <<>>)
               [] x \in StrLexemes ->
                    [ok |-> TRUE, val |-> Str(<<Unquoted(x)>>), pos |-> i + 1]
               [] x \in NumLexemes ->
                    [ok |-> TRUE, val |-> PyInt(NumberOf(x)), pos |-> i + 1]
               [] x = "null" -> [ok |-> TRUE, val |-> None, pos |-> i + 1]
               [] OTHER -> NoParse

\* "key": value pairs up to the closing brace; a repeated key takes the last value
ParseMembers(toks, i, acc) ==
    IF i + 2 > Len(toks) \/ toks[i] \notin StrLexemes \/ toks[i + 1] # ":"
    THEN NoParse
    ELSE LET r == ParseValue(toks, i + 2)
         IN  IF ~r.ok \/ r.pos > Len(toks) THEN NoParse
             ELSE LET acc2 == DictSet(acc, <<Unquoted(toks[i])>>, r.val)
                  IN  CASE toks[r.pos] = "}" ->
                             [ok |-> TRUE, val |-> Dict(acc2), pos |-> r.pos + 1]
                        [] toks[r.pos] = "," -> ParseMembers(toks, r.pos + 1, acc2)
                        [] OTHER -> NoParse

\* values up to the closing bracket
ParseElements(toks, i, acc) ==
    LET r == ParseValue(toks, i)
    IN  IF ~r.ok \/ r.pos > Len(toks) THEN NoParse
        ELSE LET acc2 == Append(acc, r.val)
             IN  CASE toks[r.pos] = "]" ->
                        [ok |-> TRUE, val |-> List(acc2), pos |-> r.pos + 1]
                   [] toks[r.pos] = "," -> ParseElements(toks, r.pos + 1, acc2)
                   [] OTHER -> NoParse

\* json.loads: one value and nothing after it, else JSONDecodeError
loads(text) ==
    LET r == ParseValue(text, 1)
    IN  IF r.ok /\ r.pos = Len(text) + 1 THEN [ok |-> TRUE, val |-> r.val]
        ELSE NoParse

\* ------------------------------------------------------- URLRequest helpers
RECURSIVE encode_pairs_keeps_none(_)
\* a variant of the loop that forgets to skip null values
encode_pairs_keeps_none(m) ==
    IF m = <<>> THEN <<>>
    ELSE LET k == Head(m)[1]
             v == Head(m)[2]
         IN  (CASE v.t = "list" -> [i \in 1..Len(v.a) |-> <<k, v.a[i]>>]
                [] OTHER -> <<<<k, v>>>>)
             \o encode_pairs_keeps_none(Tail(m))

RECURSIVE encode_pairs(_)
\* the loop of __encode_parameters: the pairs handed to urlencode
encode_pairs(m) ==
    IF m = <<>> THEN <<>>
    ELSE LET k == Head(m)[1]
             v == Head(m)[2]
         IN  (CASE v.t = "None" -> <<>>
                [] v.t = "list" -> [i \in 1..Len(v.a) |-> <<k, v.a[i]>>]
                [] OTHER -> <<<<k, v>>>>)
             \o encode_pairs(Tail(m))

\* URLRequest.__encode_parameters
encode_parameters(params) == urlencode(encode_pairs(params.m))

\* URLRequest.__build_url: the test is the truth value of the dict
build_url(url, params) ==
    IF params.m # <<>> THEN url \o <<"?">> \o encode_parameters(params)
    ELSE url

\* the exception ApiError(arg)
ApiError(arg) == [kind |-> "ApiError", val |-> arg]

UnknownError == Str(<<"Erro desconhecido">>)

\* a variant that looks at a list itself, never at its first element
Inspected_whole(data) == data

\* the value _check_api_error looks at
Inspected(data) ==
    IF data.t = "list" /\ data.a # <<>> THEN data.a[1] ELSE data

\* URLRequest._check_api_error: the exception it raises, or no exception
check_api_error(data) ==
    LET d == Inspected(data)
    IN  IF d.t = "dict"
           /\ (Get(d, <<"result">>, None) = Str(<<"error">>) \/ HasKey(d, <<"error">>))
        THEN [raised |-> TRUE, exc |-> ApiError(Get(d, <<"errors">>, UnknownError))]
        ELSE [raised |-> FALSE]

\* URLRequest.__parse_data on response.content (bytes): how the call ends
parse_data(content) ==
    LET dec == decode(content)
    IN  IF ~dec.ok THEN [kind |-> "UnicodeDecodeError", val |-> Bytes(content)]
        ELSE LET j == loads(dec.text)
             IN  IF ~j.ok THEN [kind |-> "Text", val |-> Str(dec.text)]
                 ELSE LET c == check_api_error(j.val)
                      IN  IF c.raised THEN c.exc
                          ELSE [kind |-> "Structured", val |-> j.val]

\* -------------------------------------------------------------- the state
VARIABLES
    cls_session,   \* URLRequest._session: 0 for None, else a session's number
    sessions,      \* the requests.Session objects created so far, by number
    pc,            \* where each thread is in request_url
    args,          \* the arguments of each thread's current call
    session,       \* the local `session` of request_url (0 before it is set)
    params,        \* the local `params` after lines 45-50
    method,        \* the local `method` after line 52
    response,      \* the local `response`, or the exception the transport raised
    sent,          \* what the current call has handed to the transport
    logged,        \* what the current call has written with logging.exception
    steps,         \* the steps the current call has taken, in order
    outcome,       \* how the current call ended
    obtained       \* the sessions _get_session has returned to any caller

vars == <<cls_session, sessions, pc, args, session, params, method, response,
          sent, logged, steps, outcome, obtained>>

PoolConnections == 100
PoolMaxsize == 100
MaxRetries == 3
DefaultTimeout == 10

\* the adapter a requests.Session mounts for both schemes when it is created
DefaultAdapter ==
    [pool_connections |-> 10, pool_maxsize |-> 10, max_retries |-> 0,
     pool_block |-> FALSE, owner |-> 0]

\* the HTTPAdapter thread t builds in _get_session
ConfiguredAdapter(t) ==
    [pool_connections |-> PoolConnections, pool_maxsize |-> PoolMaxsize,
     max_retries |-> MaxRetries, pool_block |-> TRUE, owner |-> t]

\* requests.Session()
NewSession == [http |-> DefaultAdapter, https |-> DefaultAdapter]

NoArgs == [url |-> <<>>, method |-> <<>>, timeout |-> 0, params |-> None, headers |-> None]
NoResponse == [t |-> "none"]
NoOutcome == [kind |-> "none"]
RequestException == [t |-> "RequestException"]
Response(status, content) == [t |-> "Response", status |-> status, content |-> content]

\* a variant that takes only server errors for failures
Ok_below_500(r) == r.status < 500

\* requests.Response.ok: raise_for_status raises for 400 <= status < 600
Ok(r) == ~(400 <= r.status /\ r.status < 600)

UpperChar(c) ==
    CASE c = "g" -> "G" [] c = "e" -> "E" [] c = "t" -> "T" [] c = "p" -> "P"
      [] c = "o" -> "O" [] c = "s" -> "S" [] c = "u" -> "U" [] c = "d" -> "D"
      [] c = "l" -> "L" [] c = "a" -> "A" [] c = "c" -> "C" [] c = "h" -> "H"
      [] OTHER -> c

\* str.upper
upper(s) == [i \in 1..Len(s) |-> UpperChar(s[i])]

GET == <<"G", "E", "T">>
POST == <<"P", "O", "S", "T">>
PUT == <<"P", "U", "T">>
DELETE == <<"D", "E", "L", "E", "T", "E">>

Init ==
    /\ cls_session = 0
    /\ sessions = <<>>
    /\ pc = [t \in Threads |-> "idle"]
    /\ args = [t \in Threads |-> NoArgs]
    /\ session = [t \in Threads |-> 0]
    /\ params = [t \in Threads |-> None]
    /\ method = [t \in Threads |-> <<>>]
    /\ response = [t \in Threads |-> NoResponse]
    /\ sent = [t \in Threads |-> <<>>]
    /\ logged = [t \in Threads |-> <<>>]
    /\ steps = [t \in Threads |-> <<>>]
    /\ outcome = [t \in Threads |-> NoOutcome]
    /\ obtained = {}

Step(t, label, name) ==
    /\ pc' = [pc EXCEPT ![t] = label]
    /\ steps' = [steps EXCEPT ![t] = Append(@, name)]

\* ---------------------------------------------------------- _get_session
\* a caller enters request_url(url, method, timeout, params, headers)
Call(t, D) ==
    /\ pc[t] = "idle"
    /\ \E u \in D.urls, m \in D.methods, to \in D.timeouts, p \in D.params, h \in D.headers :
          args' = [args EXCEPT ![t] =
                      [url |-> u, method |-> m, timeout |-> to, params |-> p, headers |-> h]]
    /\ pc' = [pc EXCEPT ![t] = "gs_test"]
    /\ UNCHANGED <<cls_session, sessions, session, params, method, response,
                   sent, logged, steps, outcome, obtained>>

\* line 22: if cls._session is None
GetSessionTest(t) ==
    /\ pc[t] = "gs_test"
    /\ pc' = [pc EXCEPT ![t] = IF cls_session = 0 THEN "gs_create" ELSE "gs_return"]
    /\ UNCHANGED <<cls_session, sessions, args, session, params, method, response,
                   sent, logged, steps, outcome, obtained>>

\* line 23: cls._session = requests.Session()
GetSessionCreate(t) ==
    /\ pc[t] = "gs_create"
    /\ sessions' = Append(sessions, NewSession)
    /\ cls_session' = Len(sessions) + 1
    /\ pc' = [pc EXCEPT ![t] = "gs_mount_http"]
    /\ UNCHANGED <<args, session, params, method, response, sent, logged, steps,
                   outcome, obtained>>

\* lines 24-30: cls._session.mount("http://", adapter), on the session the
\* class attribute holds now
GetSessionMountHttp(t) ==
    /\ pc[t] = "gs_mount_http"
    /\ sessions' = [sessions EXCEPT ![cls_session].http = ConfiguredAdapter(t)]
    /\ pc' = [pc EXCEPT ![t] = "gs_mount_https"]
    /\ UNCHANGED <<cls_session, args, session, params, method, response, sent,
                   logged, steps, outcome, obtained>>

\* line 31: cls._session.mount("https://", adapter)
GetSessionMountHttps(t) ==
    /\ pc[t] = "gs_mount_https"
    /\ sessions' = [sessions EXCEPT ![cls_session].https = ConfiguredAdapter(t)]
    /\ pc' = [pc EXCEPT ![t] = "gs_return"]
    /\ UNCHANGED <<cls_session, args, session, params, method, response, sent,
                   logged, steps, outcome, obtained>>

\* line 32 and line 43: session = cls._get_session()
GetSessionReturn(t) ==
    /\ pc[t] = "gs_return"
    /\ session' = [session EXCEPT ![t] = cls_session]
    /\ obtained' = obtained \cup {cls_session}
    /\ Step(t, "normalize", "get_session")
    /\ UNCHANGED <<cls_session, sessions, args, params, method, response, sent,
                   logged, outcome>>

\* ------------------------------------------------------------ request_url
\* one value of the dict comprehension of line 50
DecodeValue(v) ==
    IF v.t = "bytes"
    THEN LET d == decode(v.b)
         IN  IF d.ok THEN [ok |-> TRUE, val |-> Str(d.text)] ELSE [ok |-> FALSE]
    ELSE [ok |-> TRUE, val |-> v]

\* a variant that leaves byte strings as they are
normalize_params_keeps_bytes(p) ==
    [ok |-> TRUE, params |-> IF p = None THEN Dict(<<>>) ELSE p]

\* lines 45-50: None becomes {}, byte-string values are decoded; not ok when a
\* value is not UTF-8 (UnicodeDecodeError)
normalize_params(p) ==
    LET p0 == IF p = None THEN Dict(<<>>) ELSE p
        n == Len(p0.m)
    IN  IF \E i \in 1..n : p0.m[i][2].t = "bytes"
        THEN IF \A i \in 1..n : DecodeValue(p0.m[i][2]).ok
             THEN [ok |-> TRUE,
                   params |-> Dict([i \in 1..n |->
                                      <<p0.m[i][1], DecodeValue(p0.m[i][2]).val>>])]
             ELSE [ok |-> FALSE]
        ELSE [ok |-> TRUE, params |-> p0]

\* lines 45-52
NormalizeParams(t) ==
    /\ pc[t] = "normalize"
    /\ LET n == normalize_params(args[t].params)
       IN  IF n.ok
           THEN /\ params' = [params EXCEPT ![t] = n.params]
                /\ method' = [method EXCEPT ![t] = upper(args[t].method)]
                /\ Step(t, "dispatch", "normalize")
                /\ UNCHANGED outcome
           ELSE /\ outcome' = [outcome EXCEPT ![t] =
                                  [kind |-> "UnicodeDecodeError", val |-> args[t].params]]
                /\ Step(t, "done", "normalize")
                /\ UNCHANGED <<params, method>>
    /\ UNCHANGED <<cls_session, sessions, args, session, response, sent, logged,
                   obtained>>

ValidMethods == {GET, POST, PUT, DELETE}

\* a variant whose PUT sends the parameters as the body
Request_put_body(m, url, p, headers, timeout) ==
    CASE m = GET ->
           [verb |-> "get", url |-> build_url(url, p), data |-> Absent,
            params |-> Absent, headers |-> headers, timeout |-> timeout]
      [] m = POST ->
           [verb |-> "post", url |-> url, data |-> p,
            params |-> Absent, headers |-> headers, timeout |-> timeout]
      [] m = DELETE ->
           [verb |-> "delete", url |-> url, data |-> Absent,
            params |-> Absent, headers |-> headers, timeout |-> timeout]
      [] m = PUT ->
           [verb |-> "put", url |-> url, data |-> p,
            params |-> Absent, headers |-> headers, timeout |-> timeout]

\* lines 55-63: what session.get/post/delete/put is called with
Request(m, url, p, headers, timeout) ==
    CASE m = GET ->
           [verb |-> "get", url |-> build_url(url, p), data |-> Absent,
            params |-> Absent, headers |-> headers, timeout |-> timeout]
      [] m = POST ->
           [verb |-> "post", url |-> url, data |-> p,
            params |-> Absent, headers |-> headers, timeout |-> timeout]
      [] m = DELETE ->
           [verb |-> "delete", url |-> url, data |-> Absent,
            params |-> Absent, headers |-> headers, timeout |-> timeout]
      [] m = PUT ->
           [verb |-> "put", url |-> url, data |-> Absent,
            params |-> p, headers |-> headers, timeout |-> timeout]

\* lines 54-65: the try block. An unknown method raises ValueError, which the
\* except clause does not catch; otherwise the request goes out through the
\* local session and the transport answers or raises RequestException
Dispatch(t, D) ==
    /\ pc[t] = "dispatch"
    /\ IF method[t] \notin ValidMethods
       THEN /\ outcome' = [outcome EXCEPT ![t] =
                              [kind |-> "ValueError", val |-> Str(method[t])]]
            /\ Step(t, "done", "invalid_method")
            /\ UNCHANGED <<sent, response>>
       ELSE /\ sent' = [sent EXCEPT ![t] =
                          Append(@, [via |-> session[t],
                                     mounts |-> sessions[session[t]],
                                     req |-> Request(method[t], args[t].url, params[t],
                                                     args[t].headers, args[t].timeout)])]
            /\ \E r \in D.responses \cup {RequestException} :
                  /\ response' = [response EXCEPT ![t] = r]
                  /\ Step(t, IF r = RequestException THEN "except" ELSE "status", "send")
            /\ UNCHANGED outcome
    /\ UNCHANGED <<cls_session, sessions, args, session, params, method, logged,
                   obtained>>

\* a variant of the except clause that re-raises without logging
LogException_silent(t) ==
    /\ pc[t] = "except"
    /\ Step(t, "reraise", "log")
    /\ UNCHANGED <<cls_session, sessions, args, session, params, method, response,
                   sent, logged, outcome, obtained>>

\* lines 66-67: logging.exception names the method and the caller's url
LogException(t) ==
    /\ pc[t] = "except"
    /\ logged' = [logged EXCEPT ![t] = Append(@, [method |-> method[t], url |-> args[t].url])]
    /\ Step(t, "reraise", "log")
    /\ UNCHANGED <<cls_session, sessions, args, session, params, method, response,
                   sent, outcome, obtained>>

\* line 68: raise
Reraise(t) ==
    /\ pc[t] = "reraise"
    /\ outcome' = [outcome EXCEPT ![t] = [kind |-> "RequestException", val |-> response[t]]]
    /\ Step(t, "done", "raise")
    /\ UNCHANGED <<cls_session, sessions, args, session, params, method, response,
                   sent, logged, obtained>>

\* lines 70-71
CheckStatus(t) ==
    /\ pc[t] = "status"
    /\ IF ~Ok(response[t])
       THEN /\ outcome' = [outcome EXCEPT ![t] = ApiError(response[t])]
            /\ Step(t, "done", "status")
       ELSE /\ Step(t, "parse", "status")
            /\ UNCHANGED outcome
    /\ UNCHANGED <<cls_session, sessions, args, session, params, method, response,
                   sent, logged, obtained>>

\* line 73
ParseData(t) ==
    /\ pc[t] = "parse"
    /\ outcome' = [outcome EXCEPT ![t] = parse_data(response[t].content)]
    /\ Step(t, "done", "parse")
    /\ UNCHANGED <<cls_session, sessions, args, session, params, method, response,
                   sent, logged, obtained>>

\* the call is over: its locals go away
Finish(t) ==
    /\ pc[t] = "done"
    /\ pc' = [pc EXCEPT ![t] = "idle"]
    /\ args' = [args EXCEPT ![t] = NoArgs]
    /\ session' = [session EXCEPT ![t] = 0]
    /\ params' = [params EXCEPT ![t] = None]
    /\ method' = [method EXCEPT ![t] = <<>>]
    /\ response' = [response EXCEPT ![t] = NoResponse]
    /\ sent' = [sent EXCEPT ![t] = <<>>]
    /\ logged' = [logged EXCEPT ![t] = <<>>]
    /\ steps' = [steps EXCEPT ![t] = <<>>]
    /\ outcome' = [outcome EXCEPT ![t] = NoOutcome]
    /\ UNCHANGED <<cls_session, sessions, obtained>>

\* ------------------------------------------------------ the callers' inputs
URL == <<"h", "/", "x">>
Keys == {<<"k">>, <<"j">>, <<"i">>}
ParamValues ==
    {None, Str(<<"a", " ", "&">>), List(<<>>), List(<<PyInt(1), Str(<<"b">>)>>),
     Bytes(<<"0xC3", "0xA9">>), Bytes(<<"0xFF">>)}

\* the sequences over S of length n
SeqsOfLen(S, n) == [1..n -> S]
SeqsUpTo(S, n) == UNION {SeqsOfLen(S, k) : k \in 0..n}

\* every mapping of at most MaxParams entries, in every iteration order
ParamMappings ==
    {Dict(m) : m \in {q \in SeqsUpTo(Keys \X ParamValues, MaxParams) :
                         \A i, j \in 1..Len(q) : i # j => q[i][1] # q[j][1]}}

SomeHeaders == Dict(<< <<<<"Authorization">>, Str(<<"Bearer">>)>> >>)

RECURSIVE dumps(_), dumps_members(_), dumps_elements(_)
\* json.dumps, as lexemes: how the server writes the bodies the model receives
dumps(v) ==
    CASE v.t = "dict" -> <<"{">> \o dumps_members(v.m) \o <<"}">>
      [] v.t = "list" -> <<"[">> \o dumps_elements(v.a) \o <<"]">>
      [] v.t = "str" -> <<Quoted(v.s[1])>>
      [] v.t = "int" -> IntDigits(v.n)
      [] v.t = "None" -> <<"null">>
dumps_members(m) ==
    IF m = <<>> THEN <<>>
    ELSE <<Quoted(Head(m)[1][1]), ":">> \o dumps(Head(m)[2])
         \o (IF Len(m) = 1 THEN <<>> ELSE <<",">> \o dumps_members(Tail(m)))
dumps_elements(a) ==
    IF a = <<>> THEN <<>>
    ELSE dumps(Head(a))
         \o (IF Len(a) = 1 THEN <<>> ELSE <<",">> \o dumps_elements(Tail(a)))

ErrorsValue == List(<<Str(<<"bad id">>)>>)
FieldValues == {Str(<<"error">>), Str(<<"ok">>), ErrorsValue}
FieldOrder == <<<<"result">>, <<"error">>, <<"errors">>>>

\* every JSON object over the fields result, error, errors
JsonDicts ==
    {Dict(m) : m \in {q \in SeqsUpTo((1..3) \X FieldValues, 3) :
                         \A i \in 1..Len(q) - 1 : q[i][1] < q[i + 1][1]}}

\* an object as the server writes it: the field names for the field numbers
Named(d) == Dict([i \in 1..Len(d.m) |-> <<FieldOrder[d.m[i][1]], d.m[i][2]>>])

ListElems ==
    {PyInt(1),
     Dict(<< <<<<"result">>, Str(<<"ok">>)>> >>),
     Dict(<< <<<<"result">>, Str(<<"error">>)>>, <<<<"errors">>, ErrorsValue>> >>),
     Dict(<< <<<<"error">>, Str(<<"ok">>)>> >>),
     List(<< Dict(<< <<<<"error">>, Str(<<"ok">>)>> >>) >>)}

JsonValues ==
    {Named(d) : d \in JsonDicts}
    \cup {List(a) : a \in SeqsUpTo(ListElems, MaxElems)}
    \cup {Dict(<< <<<<"data">>, List(<<PyInt(1), PyInt(2), PyInt(3)>>)>> >>),
          Str(<<"error">>), PyInt(1), None}

NonJsonBodies ==
    {<<"pong">>, <<>>, <<"0xC3", "0xA9">>, <<"0xFF">>, <<"{", "\"error\"">>,
     <<"1", "pong">>, <<"\"error\"", "0xC3">>}

Bodies == {dumps(v) : v \in JsonValues} \cup NonJsonBodies

\* the request side in full, a few responses
CallerInputs ==
    [urls |-> {URL},
     methods |-> {GET, <<"g", "e", "t">>, <<"P", "o", "s", "t">>, PUT, DELETE,
                  <<"p", "a", "t", "c", "h">>},
     timeouts |-> {DefaultTimeout, 3},
     params |-> {None} \cup ParamMappings,
     headers |-> {None, SomeHeaders},
     responses |-> {Response(200, <<"pong">>), Response(404, <<"pong">>),
                    Response(200, <<"{", "\"error\"", ":", "1", "}">>)}]

\* the response side in full, a few requests
ServerInputs ==
    [urls |-> {URL},
     methods |-> {GET, POST, <<"P", "A", "T", "C", "H">>},
     timeouts |-> {DefaultTimeout},
     params |-> {None, Dict(<< <<<<"k">>, Str(<<"b">>)>> >>)},
     headers |-> {None},
     responses |-> {Response(st, b) : st \in {200, 301, 404, 500}, b \in Bodies}]

\* several threads, a few requests and responses
ThreadInputs ==
    [urls |-> {URL},
     methods |-> {GET, <<"p", "a", "t", "c", "h">>},
     timeouts |-> {DefaultTimeout},
     params |-> {None, Dict(<< <<<<"k">>, Bytes(<<"0xFF">>)>> >>)},
     headers |-> {None},
     responses |-> {Response(200, <<"pong">>), Response(404, <<"pong">>)}]

\* --------------------------------------------------------- specifications
ThreadNext(t, D) ==
    \/ Call(t, D)
    \/ GetSessionTest(t)
    \/ GetSessionCreate(t)
    \/ GetSessionMountHttp(t)
    \/ GetSessionMountHttps(t)
    \/ GetSessionReturn(t)
    \/ NormalizeParams(t)
    \/ Dispatch(t, D)
    \/ LogException(t)
    \/ Reraise(t)
    \/ CheckStatus(t)
    \/ ParseData(t)
    \/ Finish(t)

\* one caller, every request
Next == ThreadNext(1, CallerInputs)
Spec == Init /\ [][Next]_vars

\* one caller, every response
NextResponse == ThreadNext(1, ServerInputs)
SpecResponse == Init /\ [][NextResponse]_vars

\* every thread calls request_url, in any interleaving
NextThreads == \E t \in Threads : ThreadNext(t, ThreadInputs)
SpecThreads == Init /\ [][NextThreads]_vars

\* ------------------------------------------------ what the claims speak of
\* the letters of the method names, lower case and upper case
LetterPairs ==
    {<<"g", "G">>, <<"e", "E">>, <<"t", "T">>, <<"p", "P">>, <<"o", "O">>,
     <<"s", "S">>, <<"u", "U">>, <<"d", "D">>, <<"l", "L">>}

SameIgnoringCase(a, b) ==
    /\ Len(a) = Len(b)
    /\ \A i \in 1..Len(a) :
          \/ a[i] = b[i]
          \/ <<a[i], b[i]>> \in LetterPairs
          \/ <<b[i], a[i]>> \in LetterPairs

\* the method is one of GET, POST, PUT, DELETE, compared case-insensitively
Supported(m) == \E v \in {GET, POST, PUT, DELETE} : SameIgnoringCase(m, v)

\* a byte-string value of the mapping is not valid UTF-8
HasUndecodable(p) ==
    /\ p # None
    /\ \E i \in 1..Len(p.m) : p.m[i][2].t = "bytes" /\ ~decode(p.m[i][2].b).ok

InCall(t) == pc[t] \notin {"idle", "gs_test", "gs_create", "gs_mount_http",
                           "gs_mount_https", "gs_return"}

\* the entries of the caller's mapping, none when params is omitted
Entries(p) == IF p = None THEN <<>> ELSE p.m

\* a parameter value as text
TextOf(v) ==
    CASE v.t = "bytes" -> decode(v.b).text
      [] v.t = "int" -> IntDigits(v.n)
      [] OTHER -> v.s

\* the pairs one entry of the mapping contributes
PairsOf(e) ==
    CASE e[2].t = "None" -> <<>>
      [] e[2].t = "list" -> [i \in 1..Len(e[2].a) |-> <<e[1], TextOf(e[2].a[i])>>]
      [] OTHER -> << <<e[1], TextOf(e[2])>> >>

\* the flattening of a mapping in its iteration order
Flattening(m) == Flatten([i \in 1..Len(m) |-> PairsOf(m[i])])

\* the part of a url after its first "?", empty when there is none
QueryOf(u) ==
    IF "?" \in Range(u)
    THEN SubSeq(u, (CHOOSE i \in 1..Len(u) : u[i] = "?" /\ \A j \in 1..(i - 1) : u[j] # "?") + 1,
                Len(u))
    ELSE <<>>

RECURSIVE SplitAt(_, _)
\* the pieces of s between occurrences of sep
SplitAt(s, sep) ==
    IF sep \notin Range(s) THEN <<s>>
    ELSE LET i == CHOOSE i \in 1..Len(s) : s[i] = sep /\ \A j \in 1..(i - 1) : s[j] # sep
         IN  <<SubSeq(s, 1, i - 1)>> \o SplitAt(SubSeq(s, i + 1, Len(s)), sep)

RECURSIVE Unquote(_)
\* a percent-encoded text read back
Unquote(s) ==
    IF s = <<>> THEN <<>>
    ELSE CASE Head(s) = "+" -> <<" ">> \o Unquote(Tail(s))
           [] Head(s) = "%26" -> <<"&">> \o Unquote(Tail(s))
           [] Head(s) = "%3D" -> <<"=">> \o Unquote(Tail(s))
           [] Head(s) = "%2B" -> <<"+">> \o Unquote(Tail(s))
           [] Head(s) = "%C3" /\ Len(s) >= 2 /\ s[2] = "%A9" ->
                <<"é">> \o Unquote(Tail(Tail(s)))
           [] OTHER -> <<Head(s)>> \o Unquote(Tail(s))

\* the pairs a query string carries, as a server reads them
PairsIn(q) ==
    IF q = <<>> THEN <<>>
    ELSE LET parts == SplitAt(q, "&")
         IN  [i \in 1..Len(parts) |->
                 LET kv == SplitAt(parts[i], "=")
                 IN  <<Unquote(kv[1]), Unquote(Flatten(Tail(kv)))>>]

\* both schemes of the session carry an adapter with the configured pool
Configured(s) ==
    /\ \E o \in Threads : s.http = ConfiguredAdapter(o)
    /\ \E o \in Threads : s.https = ConfiguredAdapter(o)

TypedOutcomes == {"Structured", "Text", "ValueError", "RequestException", "ApiError"}

\* ------------------------------------------------------------------ claims
\* C1: at most one session is ever created, and every call obtains that one
\* session from _get_session, whatever the interleaving of the first calls.
C1_OneSessionShared ==
    /\ Len(sessions) <= 1
    /\ Cardinality(obtained) <= 1

C3_OneSendTypedOutcome ==
    \A t \in Threads :
        /\ Len(sent[t]) <= 1
        /\ pc[t] = "done" => outcome[t].kind \in TypedOutcomes

\* the value the embedded-error check looks at: the first element of a
\* non-empty list, else the value itself
InspectedValue(v) == IF v.t = "list" /\ Len(v.a) > 0 THEN Head(v.a) ELSE v

\* a mapping with result equal to "error", or with the key error
SignalsError(d) ==
    /\ d.t = "dict"
    /\ \E i \in 1..Len(d.m) :
          \/ d.m[i] = <<<<"result">>, Str(<<"error">>)>>
          \/ d.m[i][1] = <<"error">>

\* the mapping's errors field if present, else the unknown-error marker
Carried(d) ==
    IF \E i \in 1..Len(d.m) : d.m[i][1] = <<"errors">>
    THEN (CHOOSE e \in Range(d.m) : e[1] = <<"errors">>)[2]
    ELSE Str(<<"Erro desconhecido">>)

\* C4: after a successful status, a body that is the JSON text of a value v
\* ends the call with ApiError exactly when the inspected value signals an
\* error, carrying its errors field or the unknown-error marker; otherwise the
\* whole value v is returned unchanged.
C4_EmbeddedError ==
    \A t \in Threads :
        (pc[t] = "done" /\ "parse" \in Range(steps[t])) =>
            \A v \in JsonValues :
                response[t].content = dumps(v) =>
                    IF SignalsError(InspectedValue(v))
                    THEN outcome[t] = [kind |-> "ApiError", val |-> Carried(InspectedValue(v))]
                    ELSE outcome[t] = [kind |-> "Structured", val |-> v]

C4_Witness ==
    \E t \in Threads :
        /\ pc[t] = "done"
        /\ response[t].t = "Response"
        /\ response[t].status = 200
        /\ response[t].content =
              <<"[", "{", "\"result\"", ":", "\"error\"", ",", "\"errors\"", ":",
                "[", "\"bad id\"", "]", "}", ",", "1", "]">>
        /\ outcome[t] = [kind |-> "ApiError", val |-> List(<<Str(<<"bad id">>)>>)]

\* C5: a response whose status is an error status (400 to 599) ends the call
\* with ApiError built from that response, whatever the body; the body is
\* never parsed and neither a text nor a JSON value is returned.
C5_ErrorStatus ==
    \A t \in Threads :
        (response[t].t = "Response" /\ response[t].status \in 400..599) =>
            /\ pc[t] \in {"status", "done"}
            /\ "parse" \notin Range(steps[t])
            /\ pc[t] = "done" => outcome[t] = [kind |-> "ApiError", val |-> response[t]]

C5_Witness ==
    \E t \in Threads :
        /\ pc[t] = "done"
        /\ response[t].t = "Response"
        /\ response[t].status = 404
        /\ response[t].content = <<"{", "\"result\"", ":", "\"ok\"", "}">>
        /\ outcome[t].kind = "ApiError"
        /\ outcome[t].val = response[t]

\* C6: when the transport raises during the send, the call logs the method
\* and the url, then ends with the transport error: one send, no status check,
\* no parsing, and never another outcome.
C6_TransportFailure ==
    \A t \in Threads :
        response[t] = RequestException =>
            /\ Len(sent[t]) = 1
            /\ steps[t] \in {<<"get_session", "normalize", "send">>,
                             <<"get_session", "normalize", "send", "log">>,
                             <<"get_session", "normalize", "send", "log", "raise">>}
            /\ "log" \in Range(steps[t]) =>
                  /\ Len(logged[t]) = 1
                  /\ SameIgnoringCase(logged[t][1].method, args[t].method)
                  /\ logged[t][1].url = args[t].url
            /\ pc[t] = "done" <=> "raise" \in Range(steps[t])
            /\ pc[t] = "done" => outcome[t].kind = "RequestException"

C6_Witness ==
    \E t \in Threads :
        /\ pc[t] = "done"
        /\ outcome[t].kind = "RequestException"
        /\ args[t].method = <<"g", "e", "t">>
        /\ args[t].params # None /\ args[t].params.m # <<>>
        /\ logged[t] = <<[method |-> GET, url |-> URL]>>

\* C7: the pairs in the query string of a GET are the flattening of the
\* mapping in its iteration order: nothing for a null value, one pair per
\* element of a sequence, one pair for any other value.
C7_QueryIsFlattening ==
    \A t \in Threads :
        \A i \in 1..Len(sent[t]) :
            sent[t][i].req.verb = "get" =>
                PairsIn(QueryOf(sent[t][i].req.url)) = Flattening(Entries(args[t].params))

C7_Witness ==
    \E t \in Threads :
        /\ Len(sent[t]) = 1
        /\ args[t].params =
              Dict(<< <<<<"k">>, List(<<PyInt(1), Str(<<"b">>)>>)>>, <<<<"j">>, None>> >>)
        /\ sent[t][1].req.url =
              URL \o <<"?", "k", "=", "1", "&", "k", "=", "b">>

\* C8: a GET whose mapping encodes to no pair is sent to exactly the caller's
\* url, with no "?" appended.
C8_NoPairsNoQuestionMark ==
    \A t \in Threads :
        \A i \in 1..Len(sent[t]) :
            (sent[t][i].req.verb = "get" /\ Flattening(Entries(args[t].params)) = <<>>) =>
                sent[t][i].req.url = args[t].url

\* the caller's mapping as the transport is given it: {} for None, byte
\* strings as text
Normalized(p) ==
    Dict([i \in 1..Len(Entries(p)) |->
            <<Entries(p)[i][1],
              IF Entries(p)[i][2].t = "bytes" THEN Str(TextOf(Entries(p)[i][2]))
              ELSE Entries(p)[i][2]>>])

\* C9: the parameters travel on one channel chosen by the method: the url for
\* GET, the body for POST, the params channel for PUT, none for DELETE; only
\* GET alters the url; headers and timeout are passed on unchanged.
C9_OneChannel ==
    \A t \in Threads :
        \A i \in 1..Len(sent[t]) :
            LET r == sent[t][i].req
                p == Normalized(args[t].params)
            IN  /\ r.headers = args[t].headers
                /\ r.timeout = args[t].timeout
                /\ CASE SameIgnoringCase(args[t].method, GET) ->
                          /\ r.verb = "get" /\ r.data = Absent /\ r.params = Absent
                          /\ SubSeq(r.url, 1, Len(args[t].url)) = args[t].url
                          /\ PairsIn(QueryOf(r.url)) = Flattening(p.m)
                     [] SameIgnoringCase(args[t].method, POST) ->
                          r.verb = "post" /\ r.url = args[t].url
                          /\ r.data = p /\ r.params = Absent
                     [] SameIgnoringCase(args[t].method, PUT) ->
                          r.verb = "put" /\ r.url = args[t].url
                          /\ r.data = Absent /\ r.params = p
                     [] SameIgnoringCase(args[t].method, DELETE) ->
                          r.verb = "delete" /\ r.url = args[t].url
                          /\ r.data = Absent /\ r.params = Absent
                     [] OTHER -> FALSE

C9_Witness ==
    \E t \in Threads :
        /\ Len(sent[t]) = 1
        /\ args[t].method = PUT
        /\ args[t].headers = SomeHeaders
        /\ args[t].timeout = 3
        /\ args[t].params = Dict(<< <<<<"k">>, Bytes(<<"0xC3", "0xA9">>)>>, <<<<"j">>, None>> >>)
        /\ sent[t][1].req =
              [verb |-> "put", url |-> URL, data |-> Absent,
               params |-> Dict(<< <<<<"k">>, Str(<<"é">>)>>, <<<<"j">>, None>> >>),
               headers |-> SomeHeaders, timeout |-> 3]

\* C10: every session _get_session has returned, and every session a request
\* goes out through, has the configured adapter mounted for both schemes.
C10_ReturnedSessionMounted ==
    \A t \in Threads :
        /\ session[t] # 0 => Configured(sessions[session[t]])
        /\ \A i \in 1..Len(sent[t]) : Configured(sent[t][i].mounts)

====
